---- MODULE Spec2Model ----
(***************************************************************************)
(* run-in-roblox: the orchestration in src/main.rs.                        *)
(*                                                                         *)
(* run() prepares a temporary copy of the place file, reads the script,    *)
(* spawns a worker thread that runs the place runner with the sender end   *)
(* of an mpsc channel of Option<RobloxMessage>, drains the channel until   *)
(* it receives None, optionally reaps the Studio process, prints a summary *)
(* and returns the exit code; main() turns the result into the process     *)
(* exit code.                                                              *)
(*                                                                         *)
(* Text (process names, command line arguments, paths) is modelled as a    *)
(* sequence of tokens, so that ends_with and contains are computed and not *)
(* assumed.  The token BadByte stands for a byte sequence that is not      *)
(* valid Unicode.                                                          *)
(***************************************************************************)
EXTENDS Integers, Sequences, FiniteSets, TLC

VARIABLES
    platform,          \* cfg!(target_os): "linux" or "other"
    stay_alive,        \* options.stay_alive
    pc,                \* position of the main thread
    tempHeld,          \* temp_place_folder (TempDir) is alive
    failure,           \* what stopped run() before the launch, "" if nothing
    temp_place_path,   \* temp_place_path, <<>> before it is assigned
    server_id,         \* server_id, "" before it is generated
    chanCreated,       \* mpsc::channel() has been called
    queue,             \* items in flight on the channel
    senderAlive,       \* the Sender has not been dropped
    wpc,               \* position of the worker thread
    bridgeOutcome,     \* why the bridge ended its stream
    client,            \* token of the client the bridge accepted, "" if none
    refused,           \* the bridge has refused a client for its token
    sent,              \* history: every item ever placed on the channel
    consumed,          \* history: every message bound by `Some(message)`
    endConsumed,       \* recv() has returned None
    exit_code,
    warning_count,
    error_count,
    print_count,
    frozen,            \* the counts at the moment None was received
    reaperRan,         \* System::new_all() was reached
    procs,             \* the process snapshot of the reaper
    signalled,         \* pids kill_with(Term) was called on
    delivered,         \* pids for which the signal was delivered
    runResult,         \* what run() returned
    procExit           \* the exit code of the process

vars == <<platform, stay_alive, pc, tempHeld, failure, temp_place_path,
          server_id,
          chanCreated, queue, senderAlive, wpc, bridgeOutcome, client, refused,
          sent, consumed, endConsumed, exit_code, warning_count, error_count,
          print_count, frozen, reaperRan, procs, signalled,
          delivered, runResult, procExit>>

countVars == <<exit_code, warning_count, error_count, print_count>>
reaperVars == <<reaperRan, procs, signalled, delivered>>
workerVars == <<wpc, bridgeOutcome, client, refused>>

----------------------------------------------------------------------------
(* Bounds *)

\* log events the worker places on the channel before the end marker
MaxEvents == 2
\* items the worker places on the channel after the end marker
MaxStray == 1
\* processes in the snapshot the reaper enumerates
MaxProcs == 2

----------------------------------------------------------------------------
(* Text as token sequences *)

BadByte == "<not-unicode>"

\* OsString::into_string() is Ok
IsUnicode(s) == \A i \in 1..Len(s) : s[i] # BadByte

\* str::ends_with
EndsWith(s, suffix) ==
    /\ Len(s) >= Len(suffix)
    /\ SubSeq(s, Len(s) - Len(suffix) + 1, Len(s)) = suffix

\* str::contains
Contains(s, sub) ==
    \E i \in 0..(Len(s) - Len(sub)) : SubSeq(s, i + 1, i + Len(sub)) = sub

----------------------------------------------------------------------------
(* Values *)

Platforms == {"linux", "other"}

\* OutputLevel
Levels == {"Print", "Info", "Warning", "Error"}

\* the log events a client reports: <<level, body>>; one body holds a line
\* break
LogEvents ==
    { <<"Error", "bad thing">>, <<"Warning", "heads\nup">>,
      <<"Print", "hello">>, <<"Info", "hello">> }

\* server_id is "run-in-roblox-" followed by lower-case hexadecimal digits
ServerIds == {"run-in-roblox-ab"}

\* tokens a client may present: the id, the id in another case, another id
ClientTokens == {"run-in-roblox-ab", "run-in-roblox-AB", "run-in-roblox-cd"}

\* Some(RobloxMessage::Output { level, body }); `from` records the token of
\* the client the worker took it from
Output(level, body, from) ==
    [some |-> TRUE, level |-> level, body |-> body, from |-> from]

\* None, the end marker
EndMarker == [some |-> FALSE, level |-> "-", body |-> "", from |-> ""]

\* main's process exit codes
ExitSuccess == 0
ExitFailure == 1
ExitTooling == 2
\* exit code of a process whose main thread panicked
ExitPanic == 101

NoResult == [kind |-> "None", code |-> 0]
Ok(code) == [kind |-> "Ok", code |-> code]
Err == [kind |-> "Err", code |-> 0]
Panic == [kind |-> "Panic", code |-> 0]

----------------------------------------------------------------------------
(* Pre-launch: lines 42-73 *)

\* the name tempdir() gives this run's folder, and the one another run got
ThisTemp == "tmpA"
OtherTemp == "tmpB"

\* temp_place_folder.path()
TempFolder(os) ==
    IF os = "linux" THEN <<"/home/u/.tmp/", ThisTemp>> ELSE <<"/tmp/", ThisTemp>>

\* options.place_path: None, or a path that may lack an extension, have one
\* that is not Unicode, or name a file that cannot be copied
PlaceInputs ==
    { [given |-> FALSE, path |-> <<>>, copies |-> TRUE] }
    \cup { [given |-> TRUE, path |-> p, copies |-> c] :
             p \in { <<"game", ".", "rbxl">>, <<"game">>,
                     <<"game", ".", BadByte>> },
             c \in BOOLEAN }

\* Path::extension(): Some(text after the last dot) or None
HasExtension(path) == Len(path) >= 3 /\ path[Len(path) - 1] = "."
Extension(path) == path[Len(path)]

\* temp_place_folder.path().join(format!("run-in-roblox-place.{}", extension))
TempPlacePath(folder, extension) ==
    folder \o <<"/", "run-in-roblox-place", ".", extension>>

\* Leave with temp_place_folder kept alive, as by a leaked TempDir
LeaveKeepingTemp(result) ==
    /\ pc' = "returned"
    /\ runResult' = result
    /\ UNCHANGED tempHeld

\* what run() does when it leaves: temp_place_folder is dropped
Leave(result) ==
    /\ pc' = "returned"
    /\ runResult' = result
    /\ tempHeld' = FALSE

\* lines 42-51
CreateTempDir ==
    /\ pc = "tempdir"
    /\ \/ /\ tempHeld' = TRUE
          /\ pc' = "place"
          /\ UNCHANGED <<runResult, failure>>
       \/ \* tempdir()? / create_dir_all()? / tempdir_in()? fails
          /\ Leave(Err)
          /\ failure' = "TempDir"
       \/ \* home_dir().unwrap() on None
          /\ platform = "linux"
          /\ Leave(Panic)
          /\ failure' = "NoHomeDir"
    /\ UNCHANGED <<platform, stay_alive, temp_place_path, server_id,
                   chanCreated, queue, senderAlive, workerVars, sent,
                   consumed, endConsumed, countVars, frozen, reaperVars,
                   procExit>>

\* lines 54-71
PreparePlace ==
    /\ pc = "place"
    /\ \E place \in PlaceInputs :
         IF ~place.given
         THEN \* unimplemented!("run-in-roblox with no place argument")
              /\ Leave(Panic)
              /\ failure' = "NoPlace"
              /\ UNCHANGED temp_place_path
         ELSE IF ~HasExtension(place.path)
         THEN /\ Leave(Err)
              /\ failure' = "NoExtension"
              /\ UNCHANGED temp_place_path
         ELSE IF ~IsUnicode(<<Extension(place.path)>>)
         THEN /\ Leave(Err)
              /\ failure' = "ExtensionNotUnicode"
              /\ UNCHANGED temp_place_path
         ELSE /\ temp_place_path' =
                    TempPlacePath(TempFolder(platform), Extension(place.path))
              /\ IF place.copies
                 THEN /\ pc' = "script"
                      /\ UNCHANGED <<runResult, tempHeld, failure>>
                 ELSE /\ Leave(Err)
                      /\ failure' = "CopyFailed"
    /\ UNCHANGED <<platform, stay_alive, server_id, chanCreated, queue,
                   senderAlive, workerVars, sent, consumed, endConsumed,
                   countVars, frozen, reaperVars, procExit>>

\* ReadScript going on to the launch when the script cannot be read
ReadScriptUnchecked ==
    /\ pc = "script"
    /\ pc' = "spawn"
    /\ \E readable \in BOOLEAN :
         failure' = IF readable THEN failure ELSE "ScriptUnreadable"
    /\ UNCHANGED <<platform, stay_alive, tempHeld, temp_place_path,
                   server_id, chanCreated, queue, senderAlive, workerVars,
                   sent, consumed, endConsumed, countVars, frozen,
                   reaperVars, runResult, procExit>>

\* line 73
ReadScript ==
    /\ pc = "script"
    /\ \/ /\ pc' = "spawn"
          /\ UNCHANGED <<runResult, tempHeld, failure>>
       \/ /\ Leave(Err)
          /\ failure' = "ScriptUnreadable"
    /\ UNCHANGED <<platform, stay_alive, temp_place_path, server_id,
                   chanCreated, queue, senderAlive, workerVars, sent,
                   consumed, endConsumed, countVars, frozen, reaperVars,
                   procExit>>

\* lines 75-97: the id, the PlaceRunner, the channel, the worker thread and
\* the zeroed counters
SpawnWorker ==
    /\ pc = "spawn"
    /\ \E id \in ServerIds : server_id' = id
    /\ chanCreated' = TRUE
    /\ senderAlive' = TRUE
    /\ queue' = <<>>
    /\ wpc' = "starting"
    /\ exit_code' = ExitSuccess
    /\ warning_count' = 0
    /\ error_count' = 0
    /\ print_count' = 0
    /\ pc' = "drain"
    /\ UNCHANGED <<platform, stay_alive, failure, tempHeld, temp_place_path,
                   bridgeOutcome, client, refused, sent, consumed,
                   endConsumed, frozen, reaperVars, runResult, procExit>>

----------------------------------------------------------------------------
(* The drain loop: lines 99-121 *)

Counts ==
    [exit_code |-> exit_code, warning_count |-> warning_count,
     error_count |-> error_count, print_count |-> print_count]

\* Classify with informational events counted as prints
ClassifyInfoAsPrint(level, c) ==
    IF level = "Error"
    THEN [c EXCEPT !.exit_code = ExitFailure, !.error_count = @ + 1]
    ELSE IF level = "Warning"
    THEN [c EXCEPT !.warning_count = @ + 1]
    ELSE [c EXCEPT !.print_count = @ + 1]

\* Classify with a warning failing the run as an error does
ClassifyWarningFails(level, c) ==
    IF level = "Error"
    THEN [c EXCEPT !.exit_code = ExitFailure, !.error_count = @ + 1]
    ELSE IF level = "Warning"
    THEN [c EXCEPT !.exit_code = ExitFailure, !.warning_count = @ + 1]
    ELSE IF level = "Print"
    THEN [c EXCEPT !.print_count = @ + 1]
    ELSE c

\* Classify with an error falling through to the warning branch
ClassifyErrorAlsoWarning(level, c) ==
    IF level = "Error"
    THEN [c EXCEPT !.exit_code = ExitFailure, !.error_count = @ + 1,
                   !.warning_count = @ + 1]
    ELSE IF level = "Warning"
    THEN [c EXCEPT !.warning_count = @ + 1]
    ELSE IF level = "Print"
    THEN [c EXCEPT !.print_count = @ + 1]
    ELSE c

\* lines 111-118
Classify(level, c) ==
    IF level = "Error"
    THEN [c EXCEPT !.exit_code = ExitFailure, !.error_count = @ + 1]
    ELSE IF level = "Warning"
    THEN [c EXCEPT !.warning_count = @ + 1]
    ELSE IF level = "Print"
    THEN [c EXCEPT !.print_count = @ + 1]
    ELSE c

\* LoopContinues with the loop also ending at the first error event
LoopEndsOnError(item) == item.some /\ item.level # "Error"

\* `while let Some(message) = ...`: the loop goes on for Some, ends for None
LoopContinues(item) == item.some

\* receiver.recv(): the oldest item if there is one; Err(RecvError) once the
\* queue is empty and the Sender is dropped; blocked otherwise
RecvReady == queue # <<>>
RecvDisconnected == queue = <<>> /\ ~senderAlive

\* Recv with a disconnection ending the loop as None does, as in
\* `while let Ok(Some(message)) = receiver.recv()`
RecvBreakOnDisconnect ==
    /\ pc = "drain"
    /\ \/ /\ RecvReady
          /\ queue' = Tail(queue)
          /\ IF LoopContinues(Head(queue))
             THEN LET c == Classify(Head(queue).level, Counts) IN
                  /\ consumed' = Append(consumed, Head(queue))
                  /\ exit_code' = c.exit_code
                  /\ warning_count' = c.warning_count
                  /\ error_count' = c.error_count
                  /\ print_count' = c.print_count
                  /\ UNCHANGED <<pc, endConsumed, frozen>>
             ELSE /\ endConsumed' = TRUE
                  /\ frozen' = Counts
                  /\ pc' = "gate"
                  /\ UNCHANGED <<consumed, countVars>>
       \/ /\ RecvDisconnected
          /\ pc' = "gate"
          /\ UNCHANGED <<queue, consumed, endConsumed, frozen, countVars>>
    /\ UNCHANGED <<platform, stay_alive, failure, tempHeld, runResult,
                   temp_place_path, server_id, chanCreated, senderAlive,
                   workerVars, sent, reaperVars, procExit>>

\* one turn of line 99 and of the loop body
Recv ==
    /\ pc = "drain"
    /\ \/ /\ RecvReady
          /\ queue' = Tail(queue)
          /\ IF LoopContinues(Head(queue))
             THEN LET c == Classify(Head(queue).level, Counts) IN
                  /\ consumed' = Append(consumed, Head(queue))
                  /\ exit_code' = c.exit_code
                  /\ warning_count' = c.warning_count
                  /\ error_count' = c.error_count
                  /\ print_count' = c.print_count
                  /\ UNCHANGED <<pc, endConsumed, frozen>>
             ELSE /\ endConsumed' = TRUE
                  /\ frozen' = Counts
                  /\ pc' = "gate"
                  /\ UNCHANGED <<consumed, countVars>>
          /\ UNCHANGED <<runResult, tempHeld>>
       \/ /\ RecvDisconnected
          /\ Leave(Err)
          /\ UNCHANGED <<queue, consumed, endConsumed, frozen, countVars>>
    /\ UNCHANGED <<platform, stay_alive, failure, temp_place_path, server_id,
                   chanCreated, senderAlive, workerVars, sent, reaperVars,
                   procExit>>

----------------------------------------------------------------------------
(* The reaper: lines 123-149 *)

StudioExe == <<"C:/Program Files/Roblox/", "RobloxStudioBeta.exe">>
GamePath == <<"Z:", "/home/u/", "game", ".", "rbxl">>
OtherRunPath ==
    <<"Z:", "/home/u/.tmp/", OtherTemp, "/", "run-in-roblox-place", ".", "rbxl">>

\* The processes that may be running when the snapshot is taken: `owner`
\* says who started the process, the program does not see it.
ProcessCatalog(place) ==
    { [pid |-> 1, owner |-> "this_run", name |-> <<"wine">>,
       cmd |-> <<StudioExe, <<"Z:">> \o place>>],
      [pid |-> 2, owner |-> "other_run", name |-> <<"wine", "64-preloader">>,
       cmd |-> <<StudioExe, OtherRunPath>>],
      [pid |-> 3, owner |-> "developer", name |-> <<"wine">>,
       cmd |-> <<StudioExe, GamePath>>],
      [pid |-> 4, owner |-> "developer", name |-> <<"wine">>,
       cmd |-> <<StudioExe>>],
      [pid |-> 5, owner |-> "unrelated", name |-> <<"wine">>,
       cmd |-> << <<"C:/windows/", "notepad.exe">>,
                  <<"Z:", "/home/u/", "run-in-roblox-place", ".", "txt">> >>],
      [pid |-> 6, owner |-> "unrelated", name |-> <<"bash">>,
       cmd |-> <<StudioExe, <<"Z:">> \o place>>],
      [pid |-> 7, owner |-> "unrelated", name |-> <<"wine">>,
       cmd |-> << <<"Z:", BadByte, "setup.exe">>, <<"/S">> >>],
      [pid |-> 8, owner |-> "developer", name |-> <<"wine">>,
       cmd |-> <<StudioExe, <<"Z:", BadByte, ".", "rbxl">> >>] }

\* system.processes_by_name("wine"): the processes whose name contains it
ByName(p) == Contains(p.name, <<"wine">>)

\* ReaperAvailable without the platform check
ReaperAnywhere(os) == TRUE

\* line 124: cfg!(target_os = "linux")
ReaperAvailable(os) == os = "linux"

\* ReapOutcome without the test of line 140
ReapOutcomeAnyDocument(cmd) ==
    IF Len(cmd) <= 1 THEN "skip"
    ELSE IF ~IsUnicode(cmd[1]) THEN "panic"
    ELSE IF ~EndsWith(cmd[1], <<"RobloxStudioBeta.exe">>) THEN "skip"
    ELSE IF ~IsUnicode(cmd[2]) THEN "panic"
    ELSE "signal"

\* lines 132-147 for one process: "skip", "signal", or "panic" when
\* into_string().unwrap() meets an argument that is not Unicode
ReapOutcome(cmd) ==
    IF Len(cmd) <= 1 THEN "skip"
    ELSE IF ~IsUnicode(cmd[1]) THEN "panic"
    ELSE IF ~EndsWith(cmd[1], <<"RobloxStudioBeta.exe">>) THEN "skip"
    ELSE IF ~IsUnicode(cmd[2]) THEN "panic"
    ELSE IF Contains(cmd[2], <<"run-in-roblox-place">>) THEN "signal"
    ELSE "skip"

\* ReaperStart with the test of stay_alive inverted
ReaperStartInverted ==
    /\ pc = "gate"
    /\ IF ~stay_alive
       THEN /\ pc' = "summary"
            /\ UNCHANGED <<runResult, tempHeld, reaperRan, procs>>
       ELSE IF ~ReaperAvailable(platform)
       THEN /\ Leave(Panic)
            /\ UNCHANGED <<reaperRan, procs>>
       ELSE /\ reaperRan' = TRUE
            /\ \E snapshot \in SUBSET ProcessCatalog(temp_place_path) :
                 /\ Cardinality(snapshot) <= MaxProcs
                 /\ procs' = snapshot
            /\ pc' = "reap"
            /\ UNCHANGED <<runResult, tempHeld>>
    /\ UNCHANGED <<platform, stay_alive, failure, temp_place_path, server_id,
                   chanCreated, queue, senderAlive, workerVars, sent,
                   consumed, endConsumed, countVars, frozen, signalled,
                   delivered, procExit>>

\* lines 123-130: the gate and the snapshot
ReaperStart ==
    /\ pc = "gate"
    /\ IF stay_alive
       THEN /\ pc' = "summary"
            /\ UNCHANGED <<runResult, tempHeld, reaperRan, procs>>
       ELSE IF ~ReaperAvailable(platform)
       THEN \* unimplemented!("run-in-roblox with stay-alive on non-linux pcs")
            /\ Leave(Panic)
            /\ UNCHANGED <<reaperRan, procs>>
       ELSE /\ reaperRan' = TRUE
            /\ \E snapshot \in SUBSET ProcessCatalog(temp_place_path) :
                 /\ Cardinality(snapshot) <= MaxProcs
                 /\ procs' = snapshot
            /\ pc' = "reap"
            /\ UNCHANGED <<runResult, tempHeld>>
    /\ UNCHANGED <<platform, stay_alive, failure, temp_place_path, server_id,
                   chanCreated, queue, senderAlive, workerVars, sent,
                   consumed, endConsumed, countVars, frozen, signalled,
                   delivered, procExit>>

\* the loop of lines 131-148 over the processes in the order the iterator
\* gives them, from the i-th on: the pids signalled, and whether it panicked
RECURSIVE ReapLoop(_, _, _)
ReapLoop(order, i, sig) ==
    IF i > Len(order)
    THEN [signalled |-> sig, panicked |-> FALSE]
    ELSE LET outcome == ReapOutcome(order[i].cmd) IN
         IF outcome = "panic"
         THEN [signalled |-> sig, panicked |-> TRUE]
         ELSE IF outcome = "signal"
         THEN ReapLoop(order, i + 1, sig \cup {order[i].pid})
         ELSE ReapLoop(order, i + 1, sig)

\* the orders in which an iterator may give the processes of a set
Orders(set) ==
    { order \in [1..Cardinality(set) -> set] :
        \A i, j \in 1..Cardinality(set) : i # j => order[i] # order[j] }

\* lines 131-148: the loop; kill_with's result is dropped, the signal may
\* or may not have been delivered
ReapProcesses ==
    /\ pc = "reap"
    /\ \E order \in Orders({p \in procs : ByName(p)}) :
         LET r == ReapLoop(order, 1, {}) IN
         /\ signalled' = r.signalled
         /\ \E got \in SUBSET r.signalled : delivered' = got
         /\ IF r.panicked
            THEN Leave(Panic)
            ELSE /\ pc' = "summary"
                 /\ UNCHANGED <<runResult, tempHeld>>
    /\ UNCHANGED <<platform, stay_alive, failure, temp_place_path, server_id,
                   chanCreated, queue, senderAlive, workerVars, sent,
                   consumed, endConsumed, countVars, frozen, reaperRan,
                   procs, procExit>>

\* lines 152-172: the summary and Ok(exit_code)
Summary ==
    /\ pc = "summary"
    /\ Leave(Ok(exit_code))
    /\ UNCHANGED <<platform, stay_alive, failure, temp_place_path, server_id,
                   chanCreated, queue, senderAlive, workerVars, sent,
                   consumed, endConsumed, countVars, frozen, reaperVars,
                   procExit>>

----------------------------------------------------------------------------
(* main: lines 186-192 *)

\* ExitCodeOf with an error of run() reported as a test failure
ExitCodeErrAsFailure(result) ==
    IF result.kind = "Ok" THEN result.code
    ELSE IF result.kind = "Err" THEN ExitFailure
    ELSE ExitPanic

ExitCodeOf(result) ==
    IF result.kind = "Ok" THEN result.code
    ELSE IF result.kind = "Err" THEN ExitTooling
    ELSE ExitPanic

MainExit ==
    /\ pc = "returned"
    /\ procExit' = ExitCodeOf(runResult)
    /\ pc' = "exited"
    /\ UNCHANGED <<platform, stay_alive, failure, tempHeld, temp_place_path,
                   server_id, chanCreated, queue, senderAlive, workerVars,
                   sent, consumed, endConsumed, countVars, frozen,
                   reaperVars, runResult>>

----------------------------------------------------------------------------
(* The worker thread: lines 87-91.  place_runner.run(sender) is the bridge *)
(* server and the launcher; the thread panics, and so drops the Sender,    *)
(* when it returns an error.                                               *)

\* TokenMatches comparing without regard to case
LowerCase(token) ==
    IF token = "run-in-roblox-AB" THEN "run-in-roblox-ab" ELSE token
TokenMatchesIgnoringCase(token, id) == LowerCase(token) = LowerCase(id)

\* the bridge compares the token a client presents with the configured one
TokenMatches(token, id) == token = id

\* Send with the newest item placed in front of the older ones
SendNewestFirst(item) ==
    /\ queue' = <<item>> \o queue
    /\ sent' = Append(sent, item)

\* sender.send(item)
Send(item) ==
    /\ queue' = Append(queue, item)
    /\ sent' = Append(sent, item)

\* the process is running and run() still owns the Receiver
WorkerRuns == pc \in {"drain", "gate", "reap", "summary"}

\* index in s of the first end marker, 0 when there is none
RECURSIVE EndIndexFrom(_, _)
EndIndexFrom(s, i) ==
    IF i > Len(s) THEN 0
    ELSE IF ~s[i].some THEN i
    ELSE EndIndexFrom(s, i + 1)
EndIndex(s) == EndIndexFrom(s, 1)

\* bind the listener and launch Studio; an error unwinds through unwrap()
WorkerStart ==
    /\ WorkerRuns
    /\ wpc = "starting"
    /\ \/ /\ wpc' = "listening"
          /\ UNCHANGED <<senderAlive, bridgeOutcome>>
       \/ /\ \E why \in {"BindFailed", "LaunchFailed"} : bridgeOutcome' = why
          /\ wpc' = "panicked"
          /\ senderAlive' = FALSE
    /\ UNCHANGED <<platform, stay_alive, failure, pc, tempHeld, temp_place_path,
                   server_id, chanCreated, queue, client, refused, sent,
                   consumed, endConsumed, countVars, frozen, reaperVars,
                   runResult, procExit>>

\* a client connects and presents a token: accepted when it is the
\* configured one, refused otherwise while the bridge goes on waiting
ClientConnect ==
    /\ WorkerRuns
    /\ wpc = "listening"
    /\ \E token \in ClientTokens :
         IF TokenMatches(token, server_id)
         THEN /\ client' = token
              /\ wpc' = "streaming"
              /\ UNCHANGED refused
         ELSE /\ refused' = TRUE
              /\ UNCHANGED <<client, wpc>>
    /\ UNCHANGED <<platform, stay_alive, failure, pc, tempHeld, temp_place_path,
                   server_id, chanCreated, queue, senderAlive, bridgeOutcome,
                   sent, consumed, endConsumed, countVars, frozen,
                   reaperVars, runResult, procExit>>

\* the accepted client reports a log event, which is forwarded as it came
ClientEvent ==
    /\ WorkerRuns
    /\ wpc = "streaming"
    /\ Len(sent) < MaxEvents
    /\ \E e \in LogEvents : Send(Output(e[1], e[2], client))
    /\ UNCHANGED <<platform, stay_alive, failure, pc, tempHeld, temp_place_path,
                   server_id, chanCreated, senderAlive, workerVars, consumed,
                   endConsumed, countVars, frozen, reaperVars, runResult,
                   procExit>>

\* the client sends the finish frame or closes the connection: the bridge
\* places the end marker
ClientFinish ==
    /\ WorkerRuns
    /\ wpc = "streaming"
    /\ Send(EndMarker)
    /\ \E why \in {"Finished", "Disconnected"} : bridgeOutcome' = why
    /\ wpc' = "ended"
    /\ UNCHANGED <<platform, stay_alive, failure, pc, tempHeld, temp_place_path,
                   server_id, chanCreated, senderAlive, client, refused,
                   consumed, endConsumed, countVars, frozen, reaperVars,
                   runResult, procExit>>

\* no client was accepted within the startup timeout: the bridge places the
\* end marker, its outcome being NoConnection
ConnectTimeout ==
    /\ WorkerRuns
    /\ wpc = "listening"
    /\ Send(EndMarker)
    /\ bridgeOutcome' = "NoConnection"
    /\ wpc' = "ended"
    /\ UNCHANGED <<platform, stay_alive, failure, pc, tempHeld, temp_place_path,
                   server_id, chanCreated, senderAlive, client, refused,
                   consumed, endConsumed, countVars, frozen, reaperVars,
                   runResult, procExit>>

\* a frame of the accepted client that is forwarded after the end marker
LateEvent ==
    /\ WorkerRuns
    /\ wpc = "ended"
    /\ client # ""
    /\ Len(sent) - EndIndex(sent) < MaxStray
    /\ Send(Output("Error", "bad thing", client))
    /\ UNCHANGED <<platform, stay_alive, failure, pc, tempHeld, temp_place_path,
                   server_id, chanCreated, senderAlive, workerVars, consumed,
                   endConsumed, countVars, frozen, reaperVars, runResult,
                   procExit>>

\* place_runner.run returns Ok(()): the closure ends and drops the Sender
WorkerReturn ==
    /\ WorkerRuns
    /\ wpc = "ended"
    /\ wpc' = "returned"
    /\ senderAlive' = FALSE
    /\ UNCHANGED <<platform, stay_alive, failure, pc, tempHeld, temp_place_path,
                   server_id, chanCreated, queue, bridgeOutcome, client,
                   refused, sent, consumed, endConsumed, countVars, frozen,
                   reaperVars, runResult, procExit>>

\* WorkerFail with the Sender outliving the panic, as when a clone of it is
\* kept by the main thread
WorkerFailKeepsSender ==
    /\ pc \in {"drain", "gate", "reap", "summary"}
    /\ wpc \in {"listening", "streaming"}
    /\ wpc' = "panicked"
    /\ bridgeOutcome' = "Failed"
    /\ UNCHANGED <<platform, stay_alive, failure, pc, tempHeld,
                   temp_place_path, server_id, chanCreated, queue,
                   senderAlive, client, refused, sent, consumed, endConsumed,
                   countVars, frozen, reaperVars, runResult, procExit>>

\* place_runner.run returns an error while waiting or streaming: unwrap()
\* panics and the Sender is dropped with no end marker sent
WorkerFail ==
    /\ WorkerRuns
    /\ wpc \in {"listening", "streaming"}
    /\ wpc' = "panicked"
    /\ bridgeOutcome' = "Failed"
    /\ senderAlive' = FALSE
    /\ UNCHANGED <<platform, stay_alive, failure, pc, tempHeld, temp_place_path,
                   server_id, chanCreated, queue, client, refused, sent,
                   consumed, endConsumed, countVars, frozen, reaperVars,
                   runResult, procExit>>

----------------------------------------------------------------------------
(* The specification *)

Init ==
    /\ platform \in Platforms
    /\ stay_alive \in BOOLEAN
    /\ pc = "tempdir"
    /\ tempHeld = FALSE
    /\ failure = ""
    /\ temp_place_path = <<>>
    /\ server_id = ""
    /\ chanCreated = FALSE
    /\ queue = <<>>
    /\ senderAlive = FALSE
    /\ wpc = "idle"
    /\ bridgeOutcome = "Pending"
    /\ client = ""
    /\ refused = FALSE
    /\ sent = <<>>
    /\ consumed = <<>>
    /\ endConsumed = FALSE
    /\ exit_code = 0
    /\ warning_count = 0
    /\ error_count = 0
    /\ print_count = 0
    /\ frozen = [exit_code |-> 0, warning_count |-> 0, error_count |-> 0,
                 print_count |-> 0]
    /\ reaperRan = FALSE
    /\ procs = {}
    /\ signalled = {}
    /\ delivered = {}
    /\ runResult = NoResult
    /\ procExit = 0

Next ==
    \/ CreateTempDir
    \/ PreparePlace
    \/ ReadScript
    \/ SpawnWorker
    \/ Recv
    \/ ReaperStart
    \/ ReapProcesses
    \/ Summary
    \/ MainExit
    \/ WorkerStart
    \/ ClientConnect
    \/ ClientEvent
    \/ ClientFinish
    \/ ConnectTimeout
    \/ LateEvent
    \/ WorkerReturn
    \/ WorkerFail

Spec == Init /\ [][Next]_vars

\* The main thread is scheduled: a receive that can return does return.
FairSpec == Spec /\ WF_vars(Recv)

----------------------------------------------------------------------------
(* Properties *)

\* the number of log events of a level in a sequence of channel items
Tally(s, level) ==
    Cardinality({i \in 1..Len(s) : s[i].some /\ s[i].level = level})

\* the items placed on the channel before the first end marker
BeforeEnd == SubSeq(sent, 1, EndIndex(sent) - 1)

\* the exit code the consumed events call for
Derived ==
    IF Tally(consumed, "Error") >= 1 THEN ExitFailure ELSE ExitSuccess

\* the process of the catalog with a pid
Proc(pid) == CHOOSE p \in ProcessCatalog(temp_place_path) : p.pid = pid

AfterRun == pc \in {"returned", "exited"}

\* C1: once the end marker has been received, each of error_count,
\* warning_count and print_count is the number of events of that level
\* placed on the channel before the end marker, and what was consumed is
\* exactly those events: nothing placed after the end marker is consumed.
C1_CountsAreTheTally ==
    endConsumed =>
        /\ consumed = BeforeEnd
        /\ error_count = Tally(BeforeEnd, "Error")
        /\ warning_count = Tally(BeforeEnd, "Warning")
        /\ print_count = Tally(BeforeEnd, "Print")

\* one error and one warning were counted, and an item placed after the end
\* marker is still on the channel when the process exits with 1
C1_Witness ==
    /\ pc = "exited"
    /\ endConsumed
    /\ Len(consumed) = 2
    /\ error_count = 1 /\ warning_count = 1 /\ print_count = 0
    /\ Len(sent) > EndIndex(sent)
    /\ queue # <<>>
    /\ procExit = ExitFailure

\* C2: a run that drained to the end marker has exit_code 1 when an error
\* event was consumed and 0 when none was, and that is what run() returns.
C2_ExitCodeFromErrors ==
    /\ endConsumed => exit_code = Derived
    /\ runResult.kind = "Ok" => endConsumed /\ runResult.code = Derived

\* run() returned success after a warning and a print
C2_Witness ==
    /\ runResult = Ok(ExitSuccess)
    /\ warning_count = 1
    /\ print_count = 1
    /\ Len(consumed) = 2

C4_SignalOnlyMatching ==
    /\ \A p \in procs :
         p.pid \in signalled =>
            /\ Contains(p.name, <<"wine">>)
            /\ Len(p.cmd) >= 2
            /\ EndsWith(p.cmd[1], <<"RobloxStudioBeta.exe">>)
            /\ \E i \in 2..Len(p.cmd) :
                 Contains(p.cmd[i], <<"run-in-roblox-place">>)
    /\ signalled \subseteq {p.pid : p \in procs}
    /\ (pc \in {"summary", "returned", "exited"} /\ reaperRan
          /\ procs = {Proc(1), Proc(3)}) => signalled = {1}

\* the reaper went through this run's Studio and a developer's Studio
C4_Witness ==
    /\ pc = "summary"
    /\ reaperRan
    /\ procs = {Proc(1), Proc(3)}
    /\ signalled = {1}

\* C5: only the process launched for this run is signalled.
C5_OnlyThisRunSignalled ==
    \A p \in procs : p.pid \in signalled => p.owner = "this_run"

\* C6: when no client connected within the timeout, the process exits with
\* a code that is neither success nor test failure.
C6_NoConnectionIsDistinct ==
    (bridgeOutcome = "NoConnection" /\ pc = "exited") =>
        procExit \notin {ExitSuccess, ExitFailure}

\* C7: the print count is the number of informational and print events
\* consumed, and without an error event the exit code stays 0.
C7_InfoAndPrintCountAsPrints ==
    chanCreated =>
        /\ print_count = Tally(consumed, "Print") + Tally(consumed, "Info")
        /\ error_count = Tally(consumed, "Error")
        /\ warning_count = Tally(consumed, "Warning")
        /\ exit_code = Derived

\* C8: off linux with stay_alive off, run() never returns Ok, no process is
\* enumerated or signalled, the process never exits with 0 or 1, and a run
\* that drained to the end marker ends in the unimplemented! panic.
C8_NoReaperNoNormalOutcome ==
    (platform # "linux" /\ ~stay_alive) =>
        /\ runResult.kind # "Ok"
        /\ ~reaperRan
        /\ signalled = {}
        /\ pc = "exited" => procExit \notin {ExitSuccess, ExitFailure}
        /\ (endConsumed /\ AfterRun) => runResult = Panic

\* off linux, a run with no error event drained and then panicked
C8_Witness ==
    /\ platform = "other"
    /\ ~stay_alive
    /\ endConsumed
    /\ error_count = 0
    /\ Len(consumed) = 1
    /\ pc = "exited"
    /\ procExit = ExitPanic

\* C9: once the reaper has run, the counts are those of the moment the end
\* marker was received, run() returns the exit code of that moment and the
\* process exits with it.
C9_ReaperKeepsResult ==
    (reaperRan /\ AfterRun) =>
        /\ Counts = frozen
        /\ runResult = Ok(frozen.exit_code)
        /\ pc = "exited" => procExit = frozen.exit_code

MarkerTaken ==
    /\ EndIndex(sent) # 0
    /\ Len(sent) - Len(queue) >= EndIndex(sent)

\* the failures before the launch that run() reports as errors
PreLaunchErrors ==
    {"NoExtension", "ExtensionNotUnicode", "CopyFailed", "ScriptUnreadable"}

\* C11: what was placed on the channel is, in order, what has been consumed,
\* then the end marker if it was received, then what is still in flight:
\* nothing is lost, repeated or reordered, and level and body are unchanged.
C11_ConsumedInOrderSent ==
    chanCreated =>
        sent = consumed
               \o (IF endConsumed THEN <<EndMarker>> ELSE <<>>)
               \o queue

\* an error and then a warning whose body holds a line break were consumed
C11_Witness ==
    /\ endConsumed
    /\ Len(consumed) = 2
    /\ consumed[1].level = "Error" /\ consumed[1].body = "bad thing"
    /\ consumed[2].level = "Warning" /\ consumed[2].body = "heads\nup"

\* C12: no process is enumerated or signalled before the end marker has been
\* taken off the channel, and after that nothing is consumed or taken off
\* the channel any more.
C12_ReaperAfterEndOfStream ==
    /\ []((reaperRan \/ procs # {} \/ signalled # {}) => MarkerTaken)
    /\ [][MarkerTaken =>
            /\ consumed' = consumed
            /\ Len(queue') >= Len(queue)
            /\ SubSeq(queue', 1, Len(queue)) = queue]_vars

\* a process was signalled and an item placed after the end marker was left
\* on the channel
C12_Witness ==
    /\ pc = "exited"
    /\ reaperRan
    /\ signalled # {}
    /\ queue # <<>>

\* C13: a missing extension, a failed copy or an unreadable script makes
\* run() return an error with no channel created, no worker spawned, nothing
\* sent or consumed and no process enumerated or signalled, and the process
\* exits with 2.
C13_PreLaunchFailureIsFatal ==
    failure \in PreLaunchErrors =>
        /\ AfterRun
        /\ runResult = Err
        /\ ~chanCreated
        /\ wpc = "idle"
        /\ sent = <<>> /\ consumed = <<>>
        /\ ~reaperRan /\ signalled = {}
        /\ pc = "exited" => procExit = ExitTooling

\* the script could not be read and the process exited with 2
C13_Witness ==
    /\ failure = "ScriptUnreadable"
    /\ temp_place_path # <<>>
    /\ pc = "exited"
    /\ procExit = ExitTooling

\* C14: once the worker has failed or returned, a main thread in the drain
\* loop leaves it; and when the worker failed, the process exits with 2.
C14_DrainEndsAfterWorkerStops ==
    /\ (wpc \in {"panicked", "returned"} /\ pc = "drain") ~> (pc # "drain")
    /\ []((wpc = "panicked" /\ pc = "exited") => procExit = ExitTooling)

\* Studio could not be launched and the run was aborted
C14_Witness ==
    /\ bridgeOutcome = "LaunchFailed"
    /\ wpc = "panicked"
    /\ pc = "exited"
    /\ procExit = ExitTooling

\* C15: the temporary directory is held only while run() is running: it is
\* released when run() has returned or unwound, whatever the way out.
C15_TempDirReleased ==
    /\ AfterRun => ~tempHeld
    /\ tempHeld => pc \in {"place", "script", "spawn", "drain", "gate",
                           "reap", "summary"}

\* off linux the run unwound from unimplemented! with the directory released
C15_Witness ==
    /\ platform = "other"
    /\ temp_place_path # <<>>
    /\ endConsumed
    /\ runResult = Panic
    /\ pc = "exited"
    /\ ~tempHeld

\* C16: the counts and the exit code are zero when the drain loop starts;
\* a step raises at most one count, by one, and lowers none; the exit code is
\* 1 exactly when error_count is at least 1; it never goes back from 1 to 0.
C16_OutcomeLifecycle ==
    /\ []((chanCreated /\ consumed = <<>>) =>
            /\ exit_code = 0 /\ error_count = 0
            /\ warning_count = 0 /\ print_count = 0)
    /\ [](exit_code = IF error_count >= 1 THEN ExitFailure ELSE ExitSuccess)
    /\ [][/\ error_count' \in {error_count, error_count + 1}
          /\ warning_count' \in {warning_count, warning_count + 1}
          /\ print_count' \in {print_count, print_count + 1}
          /\ (error_count' + warning_count' + print_count')
                <= (error_count + warning_count + print_count) + 1
          /\ (consumed' = consumed) =>
                (error_count' + warning_count' + print_count')
                   = (error_count + warning_count + print_count)
          /\ exit_code = ExitFailure => exit_code' = ExitFailure]_vars

\* a print was consumed after an error, the exit code still being 1
C16_Witness ==
    /\ pc = "drain"
    /\ Len(consumed) = 2
    /\ consumed[1].level = "Error"
    /\ consumed[2].level = "Print"
    /\ exit_code = ExitFailure
    /\ error_count = 1 /\ print_count = 1

\* C17: when run() has ended on a channel from which the end marker was never
\* taken, it returned the error and no process was enumerated or signalled.
C17_NoReaperOnDisconnect ==
    (chanCreated /\ AfterRun /\ ~MarkerTaken) =>
        /\ runResult = Err
        /\ ~reaperRan
        /\ procs = {}
        /\ signalled = {}

\* on linux with stay_alive off the worker failed and the reaper did not run
C17_Witness ==
    /\ platform = "linux"
    /\ ~stay_alive
    /\ wpc = "panicked"
    /\ Len(consumed) = 1
    /\ pc = "exited"
    /\ ~reaperRan
    /\ procExit = ExitTooling

\* C18: with stay_alive on, no process is enumerated or signalled, and a run
\* that received the end marker returns the exit code its events call for.
C18_StayAliveSkipsReaper ==
    stay_alive =>
        /\ ~reaperRan
        /\ procs = {}
        /\ signalled = {}
        /\ (endConsumed /\ AfterRun) => runResult = Ok(Derived)
        /\ (endConsumed /\ pc = "exited") => procExit = Derived

\* with stay_alive on, a run with one error exited with 1 on either platform
C18_Witness ==
    /\ stay_alive
    /\ platform = "other"
    /\ endConsumed
    /\ error_count = 1
    /\ pc = "exited"
    /\ procExit = ExitFailure

====
